---- MODULE Spec2Model ----
\* A model of the MMLU evaluation harness: the data module's prompt
\* construction (module.py, MMLUDataModule), the test loop and its metric
\* (module.py, MMLUModel / LogitAccuracy) and the aggregation of main (eval.py).
\*
\* The tokenizer, the language model and the trainer are library code.  A text
\* is modelled as the sequence of its segments, a tokenizer call by the number
\* of tokens of each segment, a forward pass by a nondeterministic logits
\* tensor.  utils.py (format_example, gen_prompt) and categories.py are not
\* among the source files; they are modelled from the specification.
EXTENDS Integers, Sequences, FiniteSets, TLC

VARIABLES
    \* ---- MMLUDataModule ----
    dev_df,      \* the development table, a sequence of rows
    test_df,     \* the test table, a sequence of rows
    ntrain,      \* the requested few-shot count
    prompt_dir,  \* "None" or a directory name
    batch_size,  \* the data loader's batch size
    pc,          \* position of control in prepare_data
    i,           \* index of the row of the running for loop (1-based)
    k,           \* the local k of prepare_data
    k_bound,     \* whether line 108 has given k a value
    prompt,      \* the local prompt
    testset,     \* self.testset
    valset,      \* self.valset
    cursor,      \* rows of testset the test data loader has handed out
    batch,       \* the last batch returned by collate_fn
    \* ---- MMLUModel / LogitAccuracy ----
    model_name,  \* args.model
    total,       \* metric state "total"
    correct,     \* metric state "correct"
    all_preds,   \* metric.all_preds
    all_golds,   \* metric.all_golds
    tpc,         \* position of control of the test runs
    tested,      \* the numbers of test rows of the subjects tested so far
    seen,        \* rows of the subject handed to test_step so far
    last,        \* what the last test_step of the running pass did
    \* ---- main ----
    subcategories, \* categories.subcategories: subject -> list of subcategories
    categories,    \* categories.categories: category -> list of subcategories
    subjects,      \* the subjects found in the data directory, sorted
    mpc,           \* position of control in main
    all_cors,      \* list of (cor, total)
    subcat_cors,   \* subcategory -> list of (cor, total)
    cat_cors,      \* category -> list of (cor, total)
    printed        \* the aggregate lines main has printed

dataVars == <<dev_df, test_df, ntrain, prompt_dir, batch_size, pc, i, k, k_bound, prompt,
              testset, valset, cursor, batch>>
testVars == <<model_name, total, correct, all_preds, all_golds, tpc, tested,
              seen, last>>
mainVars == <<subcategories, categories, subjects, mpc, all_cors, subcat_cors,
              cat_cors, printed>>
vars == <<dataVars, testVars, mainVars>>

\* A short text (an answer letter, a decoded label) is the sequence of its
\* characters.  The dict of line 73, 1-based.
Letters == << <<"A">>, <<"B">>, <<"C">>, <<"D">> >>

Min(a, b) == IF a < b THEN a ELSE b
Max(a, b) == IF a > b THEN a ELSE b

RECURSIVE SumSeq(_)
SumSeq(s) == IF s = <<>> THEN 0 ELSE Head(s) + SumSeq(Tail(s))

\* ------------------------------------------------------------------------
\* Bounds of the model
\* ------------------------------------------------------------------------
MaxDev == 2         \* rows of a development table
MaxTest == 2        \* rows of a test table
MaxNtrain == 2      \* requested few-shot count
MaxBatch == 2       \* batch size
MaxRows == 2        \* test rows of a subject in the test runs
ProbScale == 1000   \* resolution of the probabilities of Softmax
MaxTotal == 2       \* test rows of a subject in the runs of main
KFloor == 2         \* k is tracked down to -KFloor; see Decrement
HeaderTokens == 10  \* tokens of the instruction sentence
AnswerTokens == 2   \* tokens of " <letter>\n\n" after "Answer:"

\* eval.py lines 29-35: the subjects of the data directory, sorted
Subjects == <<"anatomy", "virology">>

\* token counts a question (with its options and "Answer:") may have
QuestionTokens == {400, 1200, 2100}
\* gold letters of the rows of the tables; the letter is carried into the
\* datasets and decides nothing in the data module
GoldLetters == {<<"C">>}

\* ------------------------------------------------------------------------
\* Program constants
\* ------------------------------------------------------------------------
TokenBudget == 2048
CollateMaxLength == 512

\* ------------------------------------------------------------------------
\* Tables, prompts and the tokenizer
\* ------------------------------------------------------------------------
Row == [question : QuestionTokens, answer : GoldLetters]

Tables(n) == UNION {[1..m -> Row] : m \in 0..n}

\* format_example(df, idx, include_answer): the question, its options and
\* "Answer:", followed by the gold letter when include_answer.
format_example(df, idx, include_answer) ==
    <<[kind |-> IF include_answer THEN "example" ELSE "question", row |-> df[idx]]>>

RECURSIVE Examples(_, _)
Examples(df, n) ==
    IF n <= 0 THEN <<>> ELSE Examples(df, n - 1) \o format_example(df, n, TRUE)

\* gen_prompt(train_df, subject, k): the instruction sentence followed by the
\* first k rows of train_df, each formatted with its answer.
gen_prompt(train_df, n) ==
    <<[kind |-> "header"]>> \o Examples(train_df, Min(n, Len(train_df)))

SegmentTokens(seg) ==
    CASE seg.kind = "header" -> HeaderTokens
      [] seg.kind = "example" -> seg.row.question + AnswerTokens
      [] seg.kind = "question" -> seg.row.question

\* tokenizer(prompt, return_tensors="pt").input_ids.shape[-1]
RECURSIVE TokenLength(_)
TokenLength(text) ==
    IF text = <<>> THEN 0 ELSE SegmentTokens(Head(text)) + TokenLength(Tail(text))

\* number of few-shot examples a prompt carries
Shots(text) == Cardinality({n \in 1..Len(text) : text[n].kind = "example"})

\* a loop test that also stops at k = 0
FlooredOverBudget(text, kk) == TokenLength(text) > TokenBudget /\ kk > 0
\* the while condition of line 113
OverBudget(text, kk) == TokenLength(text) > TokenBudget

\* k -= 1.  Python integers are unbounded; every k <= 0 yields the same
\* prompt, so the model stops distinguishing values below -KFloor.
Decrement(kk) == Max(kk - 1, 0 - KFloor)

\* no batch has been collated yet
NoBatch == [input_len |-> 0, size |-> 0]

\* no test_step has run yet
NoStep == [forward_keys |-> {}, logits |-> <<>>, pred |-> <<>>, size |-> 0]

\* ------------------------------------------------------------------------
\* Idle values of the parts a specification does not run
\* ------------------------------------------------------------------------
DataIdle ==
    /\ dev_df = <<>> /\ test_df = <<>> /\ ntrain = 0 /\ prompt_dir = "None"
    /\ batch_size = 1 /\ pc = "idle" /\ i = 0 /\ k = 0 /\ k_bound = FALSE /\ prompt = <<>>
    /\ testset = <<>> /\ valset = <<>> /\ cursor = 0 /\ batch = NoBatch

TestIdle ==
    /\ model_name = "other" /\ total = 0 /\ correct = 0 /\ all_preds = <<>>
    /\ all_golds = <<>> /\ tpc = "idle" /\ tested = <<>> /\ seen = 0
    /\ last = NoStep

MainIdle ==
    /\ subcategories = <<>> /\ categories = <<>> /\ mpc = "idle" /\ subjects = <<>>
    /\ all_cors = <<>> /\ subcat_cors = <<>> /\ cat_cors = <<>> /\ printed = <<>>

\* ------------------------------------------------------------------------
\* MMLUDataModule
\* ------------------------------------------------------------------------
\* __init__ has read the two tables; prepare_data has not been called.
DataInit ==
    /\ dev_df \in Tables(MaxDev)
    /\ test_df \in Tables(MaxTest)
    /\ ntrain \in 0..MaxNtrain
    /\ prompt_dir \in {"None", "prompts"}
    /\ batch_size \in 1..MaxBatch
    /\ pc = "start" /\ i = 0 /\ k = 0 /\ k_bound = FALSE /\ prompt = <<>>
    /\ testset = <<>> /\ valset = <<>> /\ cursor = 0 /\ batch = NoBatch
    /\ TestIdle /\ MainIdle

dataRest == <<dev_df, test_df, ntrain, prompt_dir, batch_size>>

\* lines 102-105: the two lists are emptied and the first loop entered
prepare_data_begin ==
    /\ pc = "start" /\ prompt_dir = "None"
    /\ testset' = <<>> /\ valset' = <<>>
    /\ i' = 1 /\ pc' = "test_for"
    /\ UNCHANGED <<dataRest, k_bound, k, prompt, cursor, batch, testVars, mainVars>>

\* lines 142-143
prepare_data_not_implemented ==
    /\ pc = "start" /\ prompt_dir # "None"
    /\ testset' = <<>> /\ valset' = <<>>
    /\ pc' = "raised"
    /\ UNCHANGED <<dataRest, k_bound, i, k, prompt, cursor, batch, testVars, mainVars>>

\* lines 106-111: the next test row, or on to the development loop
test_for ==
    /\ pc = "test_for"
    /\ IF i <= Len(test_df)
       THEN /\ k' = ntrain /\ k_bound' = TRUE
            /\ prompt' = gen_prompt(dev_df, ntrain) \o format_example(test_df, i, FALSE)
            /\ pc' = "test_while"
            /\ i' = i
       ELSE /\ pc' = "dev_for" /\ i' = 1
            /\ UNCHANGED <<k, k_bound, prompt>>
    /\ UNCHANGED <<dataRest, testset, valset, cursor, batch, testVars, mainVars>>

\* line 113 and lines 118-123: the loop test; on exit the row is appended
test_while ==
    /\ pc = "test_while"
    /\ IF OverBudget(prompt, k)
       THEN /\ pc' = "test_body"
            /\ UNCHANGED <<i, testset>>
       ELSE /\ testset' = Append(testset, [input |-> prompt, output |-> test_df[i].answer])
            /\ i' = i + 1
            /\ pc' = "test_for"
    /\ UNCHANGED <<dataRest, k_bound, k, prompt, valset, cursor, batch, testVars, mainVars>>

\* lines 114-116
test_body ==
    /\ pc = "test_body"
    /\ k' = Decrement(k)
    /\ prompt' = gen_prompt(dev_df, k') \o format_example(test_df, i, FALSE)
    /\ pc' = "test_while"
    /\ UNCHANGED <<dataRest, k_bound, i, testset, valset, cursor, batch, testVars, mainVars>>

\* lines 125-129, and 145-146 once the loop is over
dev_for ==
    /\ pc = "dev_for"
    /\ IF i <= Len(dev_df)
       THEN /\ prompt' = gen_prompt(dev_df, 0) \o format_example(dev_df, i, FALSE)
            /\ pc' = "dev_while"
       ELSE /\ pc' = "done"
            /\ UNCHANGED prompt
    /\ UNCHANGED <<dataRest, k_bound, i, k, testset, valset, cursor, batch, testVars, mainVars>>

\* line 131 and lines 136-141
dev_while ==
    /\ pc = "dev_while"
    /\ IF TokenLength(prompt) > TokenBudget
       THEN /\ pc' = "dev_body"
            /\ UNCHANGED <<i, valset>>
       ELSE /\ valset' = Append(valset, [input |-> prompt, output |-> dev_df[i].answer])
            /\ i' = i + 1
            /\ pc' = "dev_for"
    /\ UNCHANGED <<dataRest, k_bound, k, prompt, testset, cursor, batch, testVars, mainVars>>

\* lines 132-134: k -= 1 reads the k the test loop left; with an empty test
\* table there is none and the read raises UnboundLocalError
dev_body ==
    /\ pc = "dev_body"
    /\ IF ~k_bound
       THEN /\ pc' = "raised"
            /\ UNCHANGED <<k, prompt>>
       ELSE /\ k' = Decrement(k)
            /\ prompt' = gen_prompt(dev_df, 0) \o format_example(dev_df, i, FALSE)
            /\ pc' = "dev_while"
    /\ UNCHANGED <<dataRest, k_bound, i, testset, valset, cursor, batch, testVars, mainVars>>

\* tokenizer(..., padding='longest', truncation=True, max_length=...): every
\* text is cut to max_length tokens, then padded to the longest of the batch
TruncatedLength(n, max_length) == Min(n, max_length)

RECURSIVE Longest(_, _)
Longest(texts, max_length) ==
    IF texts = <<>> THEN 0
    ELSE Max(TruncatedLength(TokenLength(Head(texts)), max_length),
             Longest(Tail(texts), max_length))

\* lines 149-154: the batch the tokenizer returns for a list of testset entries
collate_fn(entries) ==
    [input_len |-> Longest([n \in 1..Len(entries) |-> entries[n].input], CollateMaxLength),
     size |-> Len(entries)]

\* lines 159-160: the data loader hands out the next batch_size entries
test_dataloader_next ==
    /\ pc = "done" /\ cursor < Len(testset)
    /\ LET upto == Min(cursor + batch_size, Len(testset)) IN
        /\ batch' = collate_fn(SubSeq(testset, cursor + 1, upto))
        /\ cursor' = upto
    /\ UNCHANGED <<dataRest, k_bound, pc, i, k, prompt, testset, valset, testVars, mainVars>>

DataNext ==
    \/ prepare_data_begin
    \/ prepare_data_not_implemented
    \/ test_for
    \/ test_while
    \/ test_body
    \/ dev_for
    \/ dev_while
    \/ dev_body
    \/ test_dataloader_next

DataSpec == DataInit /\ [][DataNext]_vars

\* prepare_data runs on the single thread of main and is never suspended
DataFairSpec == DataSpec /\ WF_vars(DataNext)

\* the zero-shot prompt of test row n
ZeroShot(n) == gen_prompt(dev_df, 0) \o format_example(test_df, n, FALSE)

\* the testset entries of the last batch
BatchEntries == SubSeq(testset, cursor - batch.size + 1, cursor)

\* C1: once prepare_data has returned, the prompt of every testset entry
\* tokenizes to at most 2048 tokens.
C1_TestsetWithinBudget ==
    pc = "done" =>
        \A n \in 1..Len(testset) : TokenLength(testset[n].input) <= TokenBudget

\* C1 witness: prepare_data has returned a test prompt that was shrunk, to
\* fewer few-shot examples than were requested and available.
C1_Witness ==
    /\ pc = "done"
    /\ \E n \in 1..Len(testset) :
          /\ Shots(testset[n].input) < Min(ntrain, Len(dev_df))
          /\ Shots(testset[n].input) > 0

\* C2: for a test row whose zero-shot prompt exceeds 2048 tokens, k never
\* goes below 0 during the search, and once the search for the row is over
\* the row's entry of testset is the zero-shot prompt.
C2_ZeroShotOverflowStopsAtZero ==
    /\ (pc \in {"test_while", "test_body"} /\ TokenLength(ZeroShot(i)) > TokenBudget)
          => k >= 0
    /\ \A n \in 1..Len(test_df) :
          (TokenLength(ZeroShot(n)) > TokenBudget /\ (pc = "test_for" => i > n)
           /\ pc \notin {"start", "raised", "test_while", "test_body"})
            => (Len(testset) >= n /\ testset[n].input = ZeroShot(n))

\* C9: once the development loop is entered, prepare_data gets through it
\* and returns with one valset entry per development row.
C9_DevLoopTerminates ==
    (pc = "dev_for") ~> (pc = "done" /\ Len(valset) = Len(dev_df))

\* C10: the batch collate_fn returns is as long as the longest prompt of the
\* batch, so that no accepted prompt has lost tokens.
C10_BatchKeepsAllTokens ==
    batch # NoBatch =>
        \E n \in 1..Len(BatchEntries) :
            /\ batch.input_len = TokenLength(BatchEntries[n].input)
            /\ \A m \in 1..Len(BatchEntries) :
                  TokenLength(BatchEntries[m].input) <= batch.input_len

\* ------------------------------------------------------------------------
\* MMLUModel and LogitAccuracy
\* ------------------------------------------------------------------------
ModelNames == {"google/flan-t5-small", "chavinlo/alpaca-native"}

\* "alpaca" in self.model_name
IsAlpaca(name) == name \in {"chavinlo/alpaca-native"}

Positions == {"first", "last"}

\* self.tokenizer(letter).input_ids of the n-th letter: two sub-token ids, all
\* eight of them distinct
input_ids(n) == <<n, n + 4>>

VocabIds == 1..8

\* the logits of one example whose only raised entries are: at the first
\* position the first id of letter r and the last id of letter r+1, at the
\* last position the first id of letter r+2 and the last id of letter r+3
Shift(r, d) == ((r + d - 1) % 4) + 1
Peaked(r) ==
    [p \in Positions |->
        [v \in VocabIds |->
            IF p = "first"
            THEN (IF v \in {input_ids(r)[1], input_ids(Shift(r, 1))[2]} THEN 1 ELSE 0)
            ELSE (IF v \in {input_ids(Shift(r, 2))[1], input_ids(Shift(r, 3))[2]} THEN 1 ELSE 0)]]

\* the logits of one example that raise, at both positions, both ids of the
\* letters of S and no other
Tied(S) ==
    [p \in Positions |->
        [v \in VocabIds |->
            IF \E n \in S : v \in {input_ids(n)[1], input_ids(n)[2]} THEN 1 ELSE 0]]

\* the logits the model may return for one example
LogitChoices == {Peaked(r) : r \in 1..4} \cup {Tied({}), Tied({2, 4})}

\* what batch_decode may return for the label of one example
GoldTexts == {Letters[n] : n \in 1..4} \cup {<<" ", "B">>}

\* str.strip, for the blank
RECURSIVE LStrip(_)
LStrip(t) == IF t # <<>> /\ Head(t) = " " THEN LStrip(Tail(t)) ELSE t
RECURSIVE RStrip(_)
RStrip(t) ==
    IF t # <<>> /\ t[Len(t)] = " " THEN RStrip(SubSeq(t, 1, Len(t) - 1)) ELSE t
Strip(t) == RStrip(LStrip(t))

\* lines 30-33: the sequence position whose logits are scored
ScoredPosition(name) == IF IsAlpaca(name) THEN "last" ELSE "first"

\* the sub-token id of every letter is its first one
FirstLetterId(n, name) == input_ids(n)[1]
\* lines 40-72: the sub-token id a letter is looked up with
LetterId(n, name) ==
    IF IsAlpaca(name) THEN input_ids(n)[Len(input_ids(n))] ELSE input_ids(n)[1]

\* the torch.tensor([...]) of lines 42-49 and 59-66
Gathered(logit, name) == [n \in 1..4 |-> logit[LetterId(n, name)]]

RECURSIVE Pow2(_)
Pow2(n) == IF n <= 0 THEN 1 ELSE 2 * Pow2(n - 1)

\* torch.nn.functional.softmax over the four values, with base 2 for e and
\* probabilities in units of 1/ProbScale
Softmax(v) ==
    LET z == SumSeq([n \in 1..Len(v) |-> Pow2(v[n])])
    IN [n \in 1..Len(v) |-> (Pow2(v[n]) * ProbScale) \div z]

\* the last index of the maximum
ArgMaxLast(v) ==
    CHOOSE n \in 1..Len(v) :
        /\ \A m \in 1..Len(v) : v[m] <= v[n]
        /\ \A m \in (n + 1)..Len(v) : v[m] < v[n]
\* np.argmax: the first index of the maximum (1-based)
ArgMax(v) ==
    CHOOSE n \in 1..Len(v) :
        /\ \A m \in 1..Len(v) : v[m] <= v[n]
        /\ \A m \in 1..(n - 1) : v[m] < v[n]

\* lines 39-73: the predicted letter of one example
Predict(tensor, name) ==
    Letters[ArgMax(Softmax(Gathered(tensor[ScoredPosition(name)], name)))]

\* lines 37-75: the predictions of a batch, and the increments of correct
Preds(logits, name) == [n \in 1..Len(logits) |-> Predict(logits[n], name)]
Hits(preds, labels) ==
    SumSeq([n \in 1..Len(preds) |-> IF Strip(preds[n]) = Strip(labels[n]) THEN 1 ELSE 0])

\* the model and the trainer are built; no test has run
TestInit ==
    /\ model_name \in ModelNames
    /\ batch_size \in 1..MaxBatch
    /\ total = 0 /\ correct = 0 /\ all_preds = <<>> /\ all_golds = <<>>
    /\ tpc = "ready" /\ tested = <<>> /\ seen = 0 /\ last = NoStep
    /\ dev_df = <<>> /\ test_df = <<>> /\ ntrain = 0 /\ prompt_dir = "None"
    /\ pc = "idle" /\ i = 0 /\ k = 0 /\ k_bound = FALSE /\ prompt = <<>>
    /\ testset = <<>> /\ valset = <<>> /\ cursor = 0 /\ batch = NoBatch
    /\ MainIdle

\* the number of test rows of the subject under test
Rows == IF tested = <<>> THEN 0 ELSE tested[Len(tested)]

\* the pass over the subject under test is over
PassOver == tpc = "testing" /\ seen = Rows

\* lines 183-187: the keys of the batch the forward call receives
ForwardKeys(name) ==
    IF IsAlpaca(name) THEN {"input_ids", "attention_mask"}
    ELSE {"input_ids", "attention_mask", "labels"}

\* on_test_start without lines 177-178
on_test_start_keeps_lists ==
    /\ total' = 0 /\ correct' = 0
    /\ UNCHANGED <<all_golds, all_preds>>
\* on_test_start without line 176
on_test_start_keeps_counts ==
    /\ UNCHANGED <<total, correct>>
    /\ all_golds' = <<>> /\ all_preds' = <<>>
\* lines 174-179: metric.reset() sets the two states to their defaults, then
\* the two lists are emptied
on_test_start_body ==
    /\ total' = 0 /\ correct' = 0
    /\ all_golds' = <<>> /\ all_preds' = <<>>

\* eval.py lines 51-55 and module.py lines 174-179: trainer.test starts the
\* pass over the next subject, whose test set has n rows
on_test_start ==
    /\ tpc = "ready" \/ PassOver
    /\ Len(tested) < Len(Subjects)
    /\ \E n \in 0..MaxRows : tested' = Append(tested, n)
    /\ seen' = 0 /\ tpc' = "testing" /\ last' = NoStep
    /\ on_test_start_body
    /\ UNCHANGED <<model_name, dataVars, mainVars>>

\* lines 26-78
update(logits, labels) ==
    LET preds == Preds(logits, model_name) IN
    /\ total' = total + Len(logits)
    /\ correct' = correct + Hits(preds, labels)
    /\ all_preds' = all_preds \o preds
    /\ all_golds' = all_golds \o labels

\* lines 181-190: the trainer hands the next batch to test_step; the forward
\* pass returns some logits
test_step ==
    /\ tpc = "testing" /\ seen < Rows
    /\ LET n == Min(batch_size, Rows - seen) IN
        \E labels \in [1..n -> GoldTexts], logits \in [1..n -> LogitChoices] :
            /\ update(logits, labels)
            /\ last' = [forward_keys |-> ForwardKeys(model_name),
                        logits |-> logits[n],
                        pred |-> Predict(logits[n], model_name),
                        size |-> n]
            /\ seen' = seen + n
    /\ UNCHANGED <<model_name, tpc, tested, batch_size, dev_df, test_df, ntrain,
                   prompt_dir, pc, i, k, k_bound, prompt, testset, valset, cursor,
                   batch, mainVars>>

TestNext ==
    \/ on_test_start
    \/ test_step

TestSpec == TestInit /\ [][TestNext]_vars

\* the n-th value is a maximum of v and no earlier value is
FirstMax(v, n) ==
    /\ \A m \in 1..Len(v) : v[m] <= v[n]
    /\ \A m \in 1..(n - 1) : v[m] < v[n]

\* C3: when the pass over a subject is over, total is the number of the
\* subject's test rows and correct lies between 0 and it, whatever the
\* subjects tested before with the same metric.
C3_CountsOfOnePass ==
    PassOver => (total = Rows /\ 0 <= correct /\ correct <= Rows)

\* C3 witness: the pass over a second subject is over, both subjects have
\* test rows, and some but not all answers of the second were right.
C3_Witness ==
    /\ PassOver /\ Len(tested) = 2
    /\ tested[1] >= 1 /\ tested[2] >= 2
    /\ correct = 1

\* C6: the model family alone selects the policy.  For an alpaca model the
\* forward call gets no labels and the prediction is the first maximum of the
\* last position's logits at the letters' last sub-token ids; for any other
\* model the labels stay and it is the first maximum of the first position's
\* logits at the letters' first sub-token ids.
C6_PolicyByFamily ==
    last.size > 0 =>
        IF IsAlpaca(model_name)
        THEN /\ "labels" \notin last.forward_keys
             /\ \E n \in 1..4 :
                    /\ last.pred = Letters[n]
                    /\ FirstMax([m \in 1..4 |-> last.logits["last"][input_ids(m)[2]]], n)
        ELSE /\ "labels" \in last.forward_keys
             /\ \E n \in 1..4 :
                    /\ last.pred = Letters[n]
                    /\ FirstMax([m \in 1..4 |-> last.logits["first"][input_ids(m)[1]]], n)

\* C6 witness: an alpaca model has scored an example whose logits name a
\* different letter under each of the four combinations of position and
\* sub-token; the last position and the last sub-token ids name "D".
C6_Witness ==
    /\ IsAlpaca(model_name) /\ last.size > 0
    /\ last.logits = Peaked(1) /\ last.pred = Letters[4]

\* C7: between the calls, all_preds and all_golds are as long as total, which
\* is the number of examples evaluated since the last on_test_start; the last
\* pair is that of the last example evaluated; and correct counts the
\* positions where the two agree up to surrounding blanks.
C7_ParallelLists ==
    /\ Len(all_preds) = total /\ Len(all_golds) = total
    /\ tpc = "testing" => total = seen
    /\ (tpc = "testing" /\ seen > 0) => all_preds[total] = last.pred
    /\ correct = Cardinality({n \in 1..Len(all_preds) :
                                 n <= Len(all_golds)
                                 /\ Strip(all_preds[n]) = Strip(all_golds[n])})

\* C7 witness: in the pass over a second subject, after a first subject with
\* test rows, a gold label with a blank has been counted as right.
C7_Witness ==
    /\ Len(tested) = 2 /\ tested[1] >= 1 /\ tpc = "testing"
    /\ total = 2 /\ correct = 2
    /\ \E n \in 1..Len(all_golds) : all_golds[n] = <<" ", "B">>

\* C8: the predicted letter is the first, in the order A, B, C, D, of those
\* whose gathered logit is the maximum; with four equal logits it is "A".
C8_FirstOfTheTied ==
    last.size > 0 =>
        LET g == Gathered(last.logits[ScoredPosition(model_name)], model_name)
            top == {n \in 1..4 : \A m \in 1..4 : g[m] <= g[n]}
        IN /\ last.pred = Letters[CHOOSE n \in top : \A m \in top : n <= m]
           /\ (\A n \in 1..4 : g[n] = g[1]) => last.pred = Letters[1]

\* C8 witness: an example with four equal logits has been scored and "A"
\* predicted.
C8_Witness ==
    /\ last.size > 0
    /\ \A n \in 1..4 :
          Gathered(last.logits[ScoredPosition(model_name)], model_name)[n] = 0
    /\ last.pred = Letters[1]

\* ------------------------------------------------------------------------
\* main
\* ------------------------------------------------------------------------
RECURSIVE GCD(_, _)
GCD(a, b) == IF b = 0 THEN a ELSE GCD(b, a % b)

\* a / b, as the fraction in lowest terms
Quotient(a, b) == LET g == GCD(a, b) IN <<a \div g, b \div g>>

\* sum(cors) and sum(totals) of a list of (cor, total)
Cors(pairs) == SumSeq([n \in 1..Len(pairs) |-> pairs[n][1]])
Totals(pairs) == SumSeq([n \in 1..Len(pairs) |-> pairs[n][2]])

\* the sum of two fractions
AddQ(x, y) == Quotient(x[1] * y[2] + y[1] * x[2], x[2] * y[2])
RECURSIVE SumQ(_)
SumQ(pairs) ==
    IF pairs = <<>> THEN <<0, 1>>
    ELSE AddQ(IF Head(pairs)[2] = 0 THEN <<0, 1>>
              ELSE Quotient(Head(pairs)[1], Head(pairs)[2]),
              SumQ(Tail(pairs)))
\* the mean of the accuracies of the pairs (that of no example counting as 0)
MeanOfAccuracies(pairs) ==
    LET q == SumQ(pairs) IN Quotient(q[1], q[2] * Len(pairs))
\* lines 72, 77 and 81: sum(cors) / sum(totals)
Accuracy(pairs) == Quotient(Cors(pairs), Totals(pairs))

\* the elements of a list
Range(list) == {list[n] : n \in 1..Len(list)}

\* the lists of one or two subcategories, none twice
SubcatNames == {"math", "physics", "health"}
SubcatLists ==
    {<<a>> : a \in SubcatNames}
        \cup {<<x[1], x[2]>> : x \in {y \in SubcatNames \X SubcatNames : y[1] # y[2]}}

\* the order of the keys of categories
CatNames == <<"STEM", "other">>

\* the tables of categories.py: every subcategory is in one category
CategoryTables ==
    { [c \in Range(CatNames) |-> IF c = "STEM" THEN <<"math", "physics">> ELSE <<"health">>],
      [c \in Range(CatNames) |-> IF c = "STEM" THEN <<"math">> ELSE <<"physics", "health">>],
      [c \in Range(CatNames) |-> IF c = "STEM" THEN <<"math", "physics", "health">> ELSE <<>>] }

\* the sorted lists of subjects a data directory may hold
RECURSIVE SubLists(_)
SubLists(list) ==
    IF list = <<>> THEN {<<>>}
    ELSE LET rest == SubLists(Tail(list))
         IN rest \cup {<<Head(list)>> \o r : r \in rest}

\* the keys of a dict built from the lists `lists`, in insertion order
RECURSIVE KeysInOrder(_, _)
KeysInOrder(lists, have) ==
    IF lists = <<>> THEN have
    ELSE LET l == Head(lists) IN
         IF l = <<>> THEN KeysInOrder(Tail(lists), have)
         ELSE KeysInOrder(<<Tail(l)>> \o Tail(lists),
                          IF Head(l) \in Range(have) THEN have ELSE Append(have, Head(l)))

\* lines 46-48: the keys of subcat_cors, in order
SubcatKeys == KeysInOrder([n \in 1..Len(Subjects) |-> subcategories[Subjects[n]]], <<>>)

\* lines 45-49
MainInit ==
    /\ subcategories \in [Range(Subjects) -> SubcatLists]
    /\ categories \in CategoryTables
    /\ subjects \in SubLists(Subjects)
    /\ mpc = "subjects"
    /\ all_cors = <<>>
    /\ subcat_cors = [sc \in Range(SubcatKeys) |-> <<>>]
    /\ cat_cors = [c \in Range(CatNames) |-> <<>>]
    /\ printed = <<>>
    /\ DataIdle /\ TestIdle

mainRest == <<subcategories, categories, subjects>>

\* the subcategories among `subcats` that belong to category key, each once
OncePerCategory(subcats, key, pair) ==
    IF \E n \in 1..Len(subcats) : subcats[n] \in Range(categories[key])
    THEN <<pair>> ELSE <<>>
\* lines 63-67: what the loop over subcats appends to cat_cors[key]
RECURSIVE CatAppends(_, _, _)
CatAppends(subcats, key, pair) ==
    IF subcats = <<>> THEN <<>>
    ELSE (IF Head(subcats) \in Range(categories[key]) THEN <<pair>> ELSE <<>>)
             \o CatAppends(Tail(subcats), key, pair)

\* lines 51-68: one subject is prepared and tested, and its counts are read
\* from the metric and recorded
evaluate_subject ==
    /\ mpc = "subjects" /\ Len(all_cors) < Len(subjects)
    /\ LET subject == subjects[Len(all_cors) + 1]
           subcats == subcategories[subject]
       IN \E total_ \in 0..MaxTotal : \E cor \in 0..total_ :
            /\ subcat_cors' = [sc \in DOMAIN subcat_cors |->
                                 IF sc \in Range(subcats)
                                 THEN Append(subcat_cors[sc], <<cor, total_>>)
                                 ELSE subcat_cors[sc]]
            /\ cat_cors' = [key \in DOMAIN cat_cors |->
                               cat_cors[key] \o CatAppends(subcats, key, <<cor, total_>>)]
            /\ all_cors' = Append(all_cors, <<cor, total_>>)
    /\ UNCHANGED <<mainRest, mpc, printed, dataVars, testVars>>

\* the for loop over the subjects is over
subjects_done ==
    /\ mpc = "subjects" /\ Len(all_cors) = Len(subjects)
    /\ mpc' = "subcats"
    /\ UNCHANGED <<mainRest, all_cors, subcat_cors, cat_cors, printed, dataVars, testVars>>

\* zip(*pairs) with no pair raises ValueError on unpacking, and a sum of
\* totals of 0 raises ZeroDivisionError
Raises(pairs) == pairs = <<>> \/ Totals(pairs) = 0

Line(level, name, pairs) ==
    [level |-> level, name |-> name, cors |-> Cors(pairs), totals |-> Totals(pairs),
     acc |-> Accuracy(pairs)]

Printed(level) == Cardinality({n \in 1..Len(printed) : printed[n].level = level})

\* lines 70-73: the next subcategory
print_subcat ==
    /\ mpc = "subcats"
    /\ IF Printed("subcat") < Len(SubcatKeys)
       THEN LET sc == SubcatKeys[Printed("subcat") + 1] IN
            IF Raises(subcat_cors[sc])
            THEN mpc' = "raised" /\ UNCHANGED printed
            ELSE /\ printed' = Append(printed, Line("subcat", sc, subcat_cors[sc]))
                 /\ UNCHANGED mpc
       ELSE mpc' = "cats" /\ UNCHANGED printed
    /\ UNCHANGED <<mainRest, all_cors, subcat_cors, cat_cors, dataVars, testVars>>

\* lines 75-78: the next category
print_cat ==
    /\ mpc = "cats"
    /\ IF Printed("cat") < Len(CatNames)
       THEN LET c == CatNames[Printed("cat") + 1] IN
            IF Raises(cat_cors[c])
            THEN mpc' = "raised" /\ UNCHANGED printed
            ELSE /\ printed' = Append(printed, Line("cat", c, cat_cors[c]))
                 /\ UNCHANGED mpc
       ELSE mpc' = "overall" /\ UNCHANGED printed
    /\ UNCHANGED <<mainRest, all_cors, subcat_cors, cat_cors, dataVars, testVars>>

\* lines 80-82
print_overall ==
    /\ mpc = "overall"
    /\ IF Raises(all_cors)
       THEN mpc' = "raised" /\ UNCHANGED printed
       ELSE /\ printed' = Append(printed, Line("all", "all", all_cors))
            /\ mpc' = "done"
    /\ UNCHANGED <<mainRest, all_cors, subcat_cors, cat_cors, dataVars, testVars>>

MainNext ==
    \/ evaluate_subject
    \/ subjects_done
    \/ print_subcat
    \/ print_cat
    \/ print_overall

MainSpec == MainInit /\ [][MainNext]_vars

\* the sum of column col of all_cors over the subjects numbered in S
RECURSIVE SumOfSubjects(_, _)
SumOfSubjects(S, col) ==
    IF S = {} THEN 0
    ELSE LET j == CHOOSE x \in S : TRUE
         IN all_cors[j][col] + SumOfSubjects(S \ {j}, col)

\* the sum of the cors (col = 1) or totals (col = 2) of the subcategories in S
RECURSIVE SumOfSubcats(_, _)
SumOfSubcats(S, col) ==
    IF S = {} THEN 0
    ELSE LET sc == CHOOSE x \in S : TRUE
         IN (IF col = 1 THEN Cors(subcat_cors[sc]) ELSE Totals(subcat_cors[sc]))
                + SumOfSubcats(S \ {sc}, col)

\* the numbers of the evaluated subjects mapped to subcategory sc
Members(sc) == {j \in 1..Len(all_cors) : sc \in Range(subcategories[subjects[j]])}

\* C4: every subcategory line main prints is the quotient of the sum of correct
\* by the sum of total over the evaluated subjects mapped to the subcategory,
\* each taken once, and the overall line is the same quotient over all the
\* evaluated subjects.
C4_WeightedAccuracy ==
    \A n \in 1..Len(printed) :
        LET line == printed[n]
            over == IF line.level = "subcat" THEN Members(line.name)
                    ELSE 1..Len(all_cors)
        IN line.level \in {"subcat", "all"} =>
            /\ line.cors = SumOfSubjects(over, 1)
            /\ line.totals = SumOfSubjects(over, 2)
            /\ line.acc[1] * SumOfSubjects(over, 2) = line.acc[2] * SumOfSubjects(over, 1)
            /\ line.acc[2] > 0

\* C4 witness: main has printed every line, among them that of a subcategory
\* of two subjects whose accuracy is not the mean of the two accuracies.
C4_Witness ==
    /\ mpc = "done"
    /\ \E n \in 1..Len(printed) :
          /\ printed[n].level = "subcat"
          /\ Cardinality(Members(printed[n].name)) = 2
          /\ \A j \in Members(printed[n].name) : all_cors[j][2] > 0
          /\ printed[n].acc # MeanOfAccuracies(subcat_cors[printed[n].name])

\* C5: the counts main divides for a category are the sums of the counts of
\* the subcategories mapped to the category.
C5_CategorySums ==
    \A n \in 1..Len(printed) :
        LET line == printed[n]
            mapped == Range(categories[line.name]) \cap DOMAIN subcat_cors
        IN line.level = "cat" =>
            /\ line.cors = SumOfSubcats(mapped, 1)
            /\ line.totals = SumOfSubcats(mapped, 2)

\* C5 witness: main has printed the line of a category two of whose
\* subcategories list the same subject, and the category's total exceeds the
\* number of examples evaluated.
C5_Witness ==
    /\ mpc = "done"
    /\ \E n \in 1..Len(printed) : \E j \in 1..Len(all_cors) :
          /\ printed[n].level = "cat"
          /\ Len(subcategories[subjects[j]]) = 2
          /\ Range(subcategories[subjects[j]]) \subseteq Range(categories[printed[n].name])
          /\ printed[n].totals > Totals(all_cors)

====
